---- MODULE Spec2Model ----
(***************************************************************************)
(* HDFS retention job: a model of main.py (the retention orchestrator),    *)
(* of the validation of the per-feed retention rules, and of the database  *)
(* gateway calls (db.py) the orchestrator drives; and, each under a        *)
(* specification of its own, of the components the orchestrator is built   *)
(* from: the SSH executor (ssh.py), the configuration objects (db.py,      *)
(* ssh.py, messaging.py), the gateway and its schema operations (db.py)    *)
(* and the email sender (messaging.py).                                    *)
(***************************************************************************)
EXTENDS Integers, Sequences, FiniteSets, TLC

VARIABLES
    args,        \* the parsed command line: [feed, test]
    today,       \* main.today, as a proleptic Gregorian ordinal (date.toordinal())
    rawData,     \* config['data'] as loaded from the JSON file
    config,      \* main()'s `config` after validate_configs: [data |-> ...]
    pc,          \* position of main()
    exc,         \* the exception that escaped main(), "none" while there is none
    pending,     \* the exception caught at line 250 and re-raised after `finally`
    ssh,         \* SSHTunnelCommandExecutor: [tunnel, client]
    engines,     \* the two DBConnection engines: [data, audit]
    idx,         \* position of the `for feed, values in config['data'].items()` loop
    audits,      \* the AuditTableClass object of the feed being processed
    auditStore,  \* the committed rows of the audit table
    partitions,  \* the data store: feed -> set of partition values of its table
    gwLog,       \* the calls that reached the data DBConnection, in order
    lastCall,    \* the last DBConnection.select / execute call and how it ended
    sql,         \* the drop statement built at lines 211-216
    events,      \* the externally visible steps of the run, in order
    notif,       \* the summary notification: [state, status, smtp, raised]
    executor,    \* an SSHTunnelCommandExecutor driven call by call (SpecSSH)
    settings,    \* a configuration object driven call by call (SpecConfig)
    database,    \* a DBConnection, its generator and the catalog (SpecDB)
    mail         \* a MultiPurposeEmailSender.send_email call (SpecEmail)

\* the variables of a run of main()
runVars == <<args, today, rawData, config, pc, exc, pending, ssh, engines, idx,
             audits, auditStore, partitions, gwLog, lastCall, sql, events, notif>>

\* the variables of the components driven on their own
compVars == <<executor, settings, database, mail>>

vars == <<runVars, compVars>>

----------------------------------------------------------------------------
(* Bounds of the model.                                                    *)

MaxRetention == 7
MaxPartitions == 3

----------------------------------------------------------------------------
(* JSON / Python values.  Every value carries its Python type.             *)

NoneV == [t |-> "none", n |-> 0, s |-> ""]
AbsentV == [t |-> "absent", n |-> 0, s |-> ""]      \* the key is not in the dict
IntV(i) == [t |-> "int", n |-> i, s |-> ""]
BoolV(b) == [t |-> "bool", n |-> IF b THEN 1 ELSE 0, s |-> ""]
FloatV(tenths) == [t |-> "float", n |-> tenths, s |-> ""]   \* n is the value times 10
StrV(str) == [t |-> "str", n |-> 0, s |-> str]

\* dict.get(field): None when the key is absent
DictGet(value, field) == IF value[field].t = "absent" THEN NoneV ELSE value[field]

\* the Python test  v == 0
PyEqualsZero(v) == v.t \in {"int", "bool", "float"} /\ v.n = 0

\* isinstance(v, int): bool is a subclass of int
PyIsInstanceInt(v) == v.t \in {"int", "bool"}

is_dict_field_missing(value, field_name) ==
    LET v == DictGet(value, field_name)
    IN  v.t = "none" \/ (v.t = "str" /\ v.s = "")

\* str.lower() on the --feed values of the model
Lower(str) ==
    CASE str = "ALL" -> "all"
      [] str = "All" -> "all"
      [] OTHER -> str

----------------------------------------------------------------------------
(* Dates: datetime's ordinal arithmetic and strftime('%Y%m%d').            *)

DaysBeforeMonth(m) ==
    CASE m = 1 -> 0 [] m = 2 -> 31 [] m = 3 -> 59 [] m = 4 -> 90
      [] m = 5 -> 120 [] m = 6 -> 151 [] m = 7 -> 181 [] m = 8 -> 212
      [] m = 9 -> 243 [] m = 10 -> 273 [] m = 11 -> 304 [] m = 12 -> 334

DaysInMonth(m) ==
    CASE m \in {1, 3, 5, 7, 8, 10, 12} -> 31
      [] m \in {4, 6, 9, 11} -> 30
      [] m = 2 -> 28

\* datetime._ord2ymd: ordinal -> <<year, month, day>>
Ord2Ymd(ordinal) ==
    LET n0 == ordinal - 1
        n400 == n0 \div 146097
        r400 == n0 % 146097
        n100 == r400 \div 36524
        r100 == r400 % 36524
        n4 == r100 \div 1461
        r4 == r100 % 1461
        n1 == r4 \div 365
        r1 == r4 % 365
        year == n400 * 400 + 1 + n100 * 100 + n4 * 4 + n1
        leapyear == n1 = 3 /\ (n4 # 24 \/ n100 = 3)
        month0 == (r1 + 50) \div 32
        prec0 == DaysBeforeMonth(month0) + (IF month0 > 2 /\ leapyear THEN 1 ELSE 0)
        month == IF prec0 > r1 THEN month0 - 1 ELSE month0
        preceding == IF prec0 > r1
                     THEN prec0 - (DaysInMonth(month) + (IF month = 2 /\ leapyear THEN 1 ELSE 0))
                     ELSE prec0
    IN  IF n1 = 4 \/ n100 = 4
        THEN <<year - 1, 12, 31>>
        ELSE <<year, month, r1 - preceding + 1>>

\* int(d.strftime('%Y%m%d')) for a four-digit year
StrftimeYmdInt(ordinal) ==
    LET ymd == Ord2Ymd(ordinal)
    IN  ymd[1] * 10000 + ymd[2] * 100 + ymd[3]

\* the cutoff with the retention period not reduced by one
RemoveOnlyBeforeOf_WholePeriod(day, n) == StrftimeYmdInt(day - n)

\* int((today - timedelta(days=n - 1)).strftime('%Y%m%d'))
RemoveOnlyBeforeOf(day, n) == StrftimeYmdInt(day - (n - 1))

----------------------------------------------------------------------------
(* Ordered dicts: the keys in insertion order, and the value of each key.  *)

EmptyDict == [keys |-> <<>>, val |-> <<>>]
DictHas(d, k) == \E i \in 1..Len(d.keys) : d.keys[i] = k
DictPop(d, k) ==
    [keys |-> SelectSeq(d.keys, LAMBDA x : x # k),
     val |-> [x \in (DOMAIN d.val) \ {k} |-> d.val[x]]]
DictOnly(d, k) == [keys |-> <<k>>, val |-> [x \in {k} |-> d.val[x]]]

RequiredFields == <<"Schema", "TableName", "RetentionPeriodInDays", "PartitionedBy">>

\* lines 87-91: some required field of the feed is None or empty
AnyFieldMissing(value) ==
    \E f \in 1..Len(RequiredFields) : is_dict_field_missing(value, RequiredFields[f])

\* line 95: the retention period is rejected
RetentionRejected(v) == PyEqualsZero(v) \/ ~PyIsInstanceInt(v)

\* lines 86-105: the loop over the feeds, from the i-th key on.  rm is
\* keys_to_remove.  Yields [exc, cfg, rm].
RECURSIVE FeedsLoop(_, _, _, _)
FeedsLoop(cfg, rm, i, day) ==
    IF i > Len(cfg.keys)
    THEN [exc |-> "none", cfg |-> cfg, rm |-> rm]
    ELSE LET key == cfg.keys[i]
             value == cfg.val[key]
             rm1 == IF AnyFieldMissing(value) THEN Append(rm, key) ELSE rm
             ret == value["RetentionPeriodInDays"]
         IN  IF ret.t = "absent"
             THEN [exc |-> "KeyError", cfg |-> cfg, rm |-> rm1]
             ELSE IF RetentionRejected(ret)
             THEN FeedsLoop(cfg, Append(rm1, key), i + 1, day)
             ELSE FeedsLoop(
                      [cfg EXCEPT !.val[key]["RemoveOnlyBefore"] =
                                      IntV(RemoveOnlyBeforeOf(day, ret.n))],
                      rm1, i + 1, day)

\* lines 108-109: config.pop(key) for every key of keys_to_remove, in order;
\* dict.pop without a default raises KeyError when the key is gone.
RECURSIVE PopAll(_, _, _)
PopAll(cfg, rm, j) ==
    IF j > Len(rm)
    THEN [exc |-> "none", cfg |-> cfg]
    ELSE IF ~DictHas(cfg, rm[j])
         THEN [exc |-> "KeyError", cfg |-> cfg]
         ELSE PopAll(DictPop(cfg, rm[j]), rm, j + 1)

\* The value validate_feeds_config returns: False, or the dict of the kept feeds.
FalseData == [isFalse |-> TRUE, keys |-> <<>>, val |-> <<>>]
DictData(d) == [isFalse |-> FALSE, keys |-> d.keys, val |-> d.val]

\* validate_feeds_config(config), with args.feed and today as parameters.
\* Yields [exc, ret].
validate_feeds_config(cfg, feedArg, day) ==
    IF feedArg # "all" /\ ~DictHas(cfg, feedArg)
    THEN [exc |-> "KeyError", ret |-> FalseData]               \* line 82
    ELSE LET chosen == IF feedArg = "all" THEN cfg ELSE DictOnly(cfg, feedArg)
             looped == FeedsLoop(chosen, <<>>, 1, day)
             popped == PopAll(looped.cfg, looped.rm, 1)
         IN  IF looped.exc # "none"
             THEN [exc |-> looped.exc, ret |-> FalseData]
             ELSE IF popped.exc # "none"
             THEN [exc |-> popped.exc, ret |-> FalseData]
             ELSE IF popped.cfg.keys = <<>>
             THEN [exc |-> "none", ret |-> FalseData]          \* line 112
             ELSE [exc |-> "none", ret |-> DictData(popped.cfg)]

\* validate_configs(config): yields [exc, data], data being config['data'].
validate_configs(cfg, feedArg, day) ==
    IF Lower(feedArg) # "all" /\ ~DictHas(cfg, feedArg)
    THEN [exc |-> "ValueError", data |-> FalseData]
    ELSE LET r == validate_feeds_config(cfg, feedArg, day)
         IN  [exc |-> r.exc, data |-> r.ret]

----------------------------------------------------------------------------
(* The database gateway, db.py.  `outcome` is what the data store does     *)
(* with the statement: "ok", "db_error" (the statement fails at the data   *)
(* store: a sqlalchemy.exc.SQLAlchemyError) or "other_error" (an exception *)
(* of another class).                                                      *)

StoreOutcomes == {"ok", "db_error", "other_error"}

\* DBConnection.select: `except Exception as e: ... raise e`
DBConnection_select(outcome) ==
    IF outcome = "ok"
    THEN [raised |-> FALSE, ret |-> "DataFrame"]
    ELSE [raised |-> TRUE, ret |-> "none"]

\* execute re-raising what it catches, as select does
DBConnection_execute_Reraising(outcome) ==
    IF outcome = "ok"
    THEN [raised |-> FALSE, ret |-> "Result"]
    ELSE [raised |-> TRUE, ret |-> "none"]

\* DBConnection.execute: `except sqlalchemy.exc.SQLAlchemyError: return False`
DBConnection_execute(outcome) ==
    CASE outcome = "ok" -> [raised |-> FALSE, ret |-> "Result"]
      [] outcome = "db_error" -> [raised |-> FALSE, ret |-> "False"]
      [] OTHER -> [raised |-> TRUE, ret |-> "none"]

\* `if res is not None:` in place of `if res:`
Truthy_NotNone(ret) == ret # "none"

\* the truth value of what execute returned (`if res:`)
Truthy(ret) == ret = "Result"

----------------------------------------------------------------------------
(* The statements main() builds, lines 211-225.                            *)

Predicate(values) ==
    [column |-> values["PartitionedBy"].s, op |-> "<",
     cutoff |-> values["RemoveOnlyBefore"].n]

\* lines 211-216
DropStatement(values) ==
    [stmt |-> "ALTER TABLE DROP IF EXISTS PARTITION",
     schema |-> values["Schema"].s, table |-> values["TableName"].s,
     pred |-> Predicate(values)]

\* lines 218-225
PartitionQuery(values) ==
    [stmt |-> "SELECT DISTINCT",
     schema |-> values["Schema"].s, table |-> values["TableName"].s,
     pred |-> Predicate(values)]

NoStatement ==
    [stmt |-> "", schema |-> "", table |-> "",
     pred |-> [column |-> "", op |-> "", cutoff |-> 0]]

\* the partitions of a table that satisfy a statement's predicate
Matching(parts, stmt) ==
    IF stmt.pred.op = "<" THEN {p \in parts : p < stmt.pred.cutoff}
    ELSE {p \in parts : p <= stmt.pred.cutoff}

----------------------------------------------------------------------------
(* The audit record, lines 22-45 and 51-73.                                *)

NoAudits ==
    [feed |-> "", id |-> 0, all_removed_before |-> 0, alter_status |-> "None",
     run_status |-> "None", end_time |-> "None", removed_partitioned_count |-> NoneV,
     removed |-> {}, is_test |-> FALSE]

\* AuditTableClass(**calculate_audits()) and lines 199-200
NewAudits(feed, values, test) ==
    [NoAudits EXCEPT !.feed = feed, !.is_test = test,
                     !.all_removed_before = values["RemoveOnlyBefore"].n]

\* the column defaults of get_table_structure, applied by the INSERT to the
\* columns the object leaves None
ColumnDefault(v) == IF v = "None" THEN "failed" ELSE v

RowAtInsert(obj, id) ==
    [obj EXCEPT !.id = id,
                !.alter_status = ColumnDefault(obj.alter_status),
                !.run_status = ColumnDefault(obj.run_status),
                !.end_time = "insert_time"]

----------------------------------------------------------------------------
(* The decisions of the per-feed body of main(), lines 197-261.            *)

\* the test flag ignored
DropIsSimulated_Never(test) == FALSE

\* line 233: `if args.test:` -- the drop is simulated, not executed
DropIsSimulated(test) == test

\* the `continue` of line 247 missing: line 249 runs after a falsy `res` too
AfterDrop_WithoutContinue(obj, res) ==
    IF Truthy(res)
    THEN [obj EXCEPT !.alter_status = "success", !.run_status = "success"]
    ELSE [obj EXCEPT !.alter_status = "failed", !.run_status = "success"]

\* lines 239-249: the statuses set from `res`
AfterDrop(obj, res) ==
    IF Truthy(res)
    THEN [obj EXCEPT !.alter_status = "success", !.run_status = "success"]
    ELSE [obj EXCEPT !.alter_status = "failed"]

\* the handler leaving run_status as it was
OnFeedException_Unmarked(obj) == obj

\* lines 250-253: the handler of an exception raised in the try block
OnFeedException(obj) == [obj EXCEPT !.run_status = "failed"]

\* end_time left unset
OnFinally_NoEndTime(obj) == obj

\* line 255
OnFinally(obj) == [obj EXCEPT !.end_time = "set"]

\* the audit connection closed first
Teardown_AuditFirst == <<"close_audit", "close_data", "close_ssh">>

\* lines 263-265
Teardown == <<"close_data", "close_audit", "close_ssh">>

----------------------------------------------------------------------------
(* The inputs of a run.                                                    *)

FeedNames == <<"F1", "F2">>
FeedSet == {FeedNames[i] : i \in 1..Len(FeedNames)}
FeedArgs == {"all", "ALL", "F1", "F2", "F9"}

\* 2024-01-15, 2024-03-02 (after a leap day), 2024-01-03 (after a new year)
Todays == {738900, 738947, 738888}

OkFeed(ret) ==
    [Schema |-> StrV("sch"), TableName |-> StrV("tbl"),
     RetentionPeriodInDays |-> ret, PartitionedBy |-> StrV("tbl_dt"),
     RemoveOnlyBefore |-> AbsentV]

RetentionValues ==
    {IntV(n) : n \in (0 - 1)..MaxRetention}
    \cup {NoneV, AbsentV, StrV(""), StrV("7"), FloatV(15), FloatV(0),
          BoolV(TRUE), BoolV(FALSE)}

FeedConfigs ==
    {OkFeed(r) : r \in RetentionValues}
    \cup {[OkFeed(r) EXCEPT !["Schema"] = NoneV] : r \in {IntV(2), IntV(0)}}
    \cup {[OkFeed(r) EXCEPT !["TableName"] = StrV("")] : r \in {IntV(2), IntV(0)}}
    \cup {[OkFeed(r) EXCEPT !["PartitionedBy"] = AbsentV] : r \in {IntV(2), IntV(0)}}

\* the partitions a table holds when the run starts: one per day, today's
\* and the MaxPartitions days before it
InitialPartitions(day) == {StrftimeYmdInt(day - k) : k \in 0..MaxPartitions}

NoCall == [op |-> "", outcome |-> "", raised |-> FALSE, ret |-> "none"]
Ev(e, feed) == [e |-> e, feed |-> feed]

----------------------------------------------------------------------------
(* messaging.py: MultiPurposeEmailSender.                                  *)

\* how the SMTP conversation of send_email (lines 98-104) can end; the
\* first four failures are smtplib.SMTPException or OSError raised by
\* SMTP(), starttls(), login() and sendmail(), the last any other exception
SmtpOutcomes == {"ok", "connect_error", "tls_error", "login_error",
                 "send_error", "other_error"}

\* how a send_email call can end: "compose_error" is an exception raised
\* by _create_message (line 95), which is called outside the try block
SendOutcomes == SmtpOutcomes \cup {"compose_error"}

BodyPart == [name |-> "body", disposition |-> "html"]
FilePart(attachment, inline) ==
    [name |-> attachment, disposition |-> IF inline THEN "inline" ELSE "attachment"]

\* lines 132-145, the loop of _attach_files from its i-th attachment on: an
\* attachment whose open() or read() raises is logged and skipped
RECURSIVE AttachLoop(_, _, _, _, _)
AttachLoop(parts, attachments, i, readable, inline) ==
    IF i > Len(attachments) THEN parts
    ELSE AttachLoop(IF attachments[i] \in readable
                    THEN Append(parts, FilePart(attachments[i], inline))
                    ELSE parts,
                    attachments, i + 1, readable, inline)

\* the loop as it would be with one try block around the whole of it: the
\* first attachment that cannot be read ends the attaching
RECURSIVE AttachLoop_OneTry(_, _, _, _, _)
AttachLoop_OneTry(parts, attachments, i, readable, inline) ==
    IF i > Len(attachments) \/ attachments[i] \notin readable THEN parts
    ELSE AttachLoop_OneTry(Append(parts, FilePart(attachments[i], inline)),
                           attachments, i + 1, readable, inline)

attach_files_OneTry(parts, attachments, readable, inline) ==
    AttachLoop_OneTry(parts, attachments, 1, readable, inline)

\* lines 129-147: `if attachments:` is false for None and for the empty list
attach_files(parts, attachments, readable, inline) ==
    IF Len(attachments) = 0 THEN parts
    ELSE AttachLoop(parts, attachments, 1, readable, inline)

\* lines 110-127: the body, then the attachments, then the inline ones
create_message(attachments, inline_attachments, readable) ==
    attach_files(attach_files(<<BodyPart>>, attachments, readable, FALSE),
                 inline_attachments, readable, TRUE)

NoMessage == <<>>

send_email_Unguarded(attachments, inline_attachments, readable, outcome) ==
    [raised    |-> outcome # "ok",
     attempted |-> outcome # "compose_error",
     delivered |-> outcome = "ok",
     msg       |-> IF outcome = "compose_error" THEN NoMessage
                   ELSE create_message(attachments, inline_attachments, readable)]

\* lines 94-108: the message is created, the SMTP conversation is attempted
\* and each of its exceptions is logged and swallowed
send_email(attachments, inline_attachments, readable, outcome) ==
    [raised    |-> outcome = "compose_error",
     attempted |-> outcome # "compose_error",
     delivered |-> outcome = "ok",
     msg       |-> IF outcome = "compose_error" THEN NoMessage
                   ELSE create_message(attachments, inline_attachments, readable)]

NoNotification == [state |-> "none", status |-> "None", smtp |-> "", raised |-> FALSE]

\* a component that the specification at hand does not drive
NoObject == [kind |-> "unused"]

Init ==
    /\ args \in [feed : FeedArgs, test : BOOLEAN]
    /\ today \in Todays
    /\ rawData \in {[keys |-> FeedNames, val |-> v] : v \in [FeedSet -> FeedConfigs]}
    /\ config = [data |-> DictData(rawData)]
    /\ pc = "start"
    /\ exc = "none"
    /\ pending = "none"
    /\ ssh = [tunnel |-> "none", client |-> "none"]
    /\ engines = [data |-> "none", audit |-> "none"]
    /\ idx = 0
    /\ audits = NoAudits
    /\ auditStore = <<>>
    /\ partitions = [f \in FeedSet |-> InitialPartitions(today)]
    /\ gwLog = <<>>
    /\ lastCall = NoCall
    /\ sql = NoStatement
    /\ events = <<>>
    /\ notif = NoNotification
    /\ executor = NoObject
    /\ settings = NoObject
    /\ database = NoObject
    /\ mail = NoObject

\* the closes of lines 263-265 reached by an exception of the lines before
\* them too, as a `finally` around lines 127-261 would reach them
Raise_ThroughTeardown(e) ==
    /\ pc' = IF e = "TemplateError" THEN "raised" ELSE "teardown"
    /\ exc' = e

\* an exception leaves main(): no statement of main() runs after it
Raise(e) == pc' = "raised" /\ exc' = e

----------------------------------------------------------------------------
(* main(), lines 127-195: validation and connections.                      *)

\* lines 128-133
Validate ==
    /\ pc = "start"
    /\ LET r == validate_configs(rawData, args.feed, today)
           cfg == [data |-> r.data]
       IN  IF r.exc # "none"
           THEN Raise(r.exc) /\ UNCHANGED config
           ELSE /\ config' = cfg
                /\ exc' = exc
                /\ pc' = IF DOMAIN cfg = {} THEN "done" ELSE "connect_ssh"   \* `if not config`
    /\ UNCHANGED <<compVars, args, today, rawData, pending, ssh, engines, idx, audits,
                   auditStore, partitions, gwLog, lastCall, sql, events, notif>>

\* lines 174-177: SSHTunnelCommandExecutor(...) and connect_client()
ConnectSSH ==
    /\ pc = "connect_ssh"
    /\ \E outcome \in {"ok", "tunnel_error", "client_error"} :
          CASE outcome = "ok" ->
                 /\ ssh' = [tunnel |-> "open", client |-> "connected"]
                 /\ events' = Append(events, Ev("ssh_open", ""))
                 /\ pc' = "open_data"
                 /\ exc' = exc
            [] outcome = "tunnel_error" ->
                 /\ ssh' = [tunnel |-> "none", client |-> "created"]
                 /\ events' = events
                 /\ Raise("SSHError")
            [] OTHER ->
                 /\ ssh' = [tunnel |-> "open", client |-> "created"]
                 /\ events' = Append(events, Ev("ssh_open", ""))
                 /\ Raise("SSHError")
    /\ UNCHANGED <<compVars, args, today, rawData, config, pending, engines, idx, audits,
                   auditStore, partitions, gwLog, lastCall, sql, notif>>

\* lines 179-184: DBConnection(dbconfig), DBConnection(audit_dbconfig);
\* the constructor creates the engine
OpenDB(which, here, next) ==
    /\ pc = here
    /\ \E ok \in BOOLEAN :
          IF ok
          THEN /\ engines' = [engines EXCEPT ![which] = "open"]
               /\ events' = Append(events, Ev("db_open", which))
               /\ pc' = next
               /\ exc' = exc
          ELSE /\ Raise("EngineError")
               /\ UNCHANGED <<engines, events>>
    /\ UNCHANGED <<compVars, args, today, rawData, config, pending, ssh, idx, audits,
                   auditStore, partitions, gwLog, lastCall, sql, notif>>

OpenDataDB == OpenDB("data", "open_data", "open_audit")
OpenAuditDB == OpenDB("audit", "open_audit", "ensure_table")

\* lines 186-195: create_table_class (create_schema) and create_tables
EnsureAuditTable ==
    /\ pc = "ensure_table"
    /\ \E ok \in BOOLEAN :
          IF ok
          THEN /\ events' = Append(events, Ev("ensure_table", ""))
               /\ pc' = "loop"
               /\ exc' = exc
          ELSE /\ Raise("SchemaError")
               /\ UNCHANGED events
    /\ UNCHANGED <<compVars, args, today, rawData, config, pending, ssh, engines, idx, audits,
                   auditStore, partitions, gwLog, lastCall, sql, notif>>

----------------------------------------------------------------------------
(* main(), lines 197-261: the loop over the feeds.                         *)

CurrentFeed == config.data.keys[idx]
CurrentValues == config.data.val[CurrentFeed]

\* line 197 when config['data'] is False: False.items() raises
LoopOnFalse ==
    /\ pc = "loop"
    /\ config.data.isFalse
    /\ Raise("AttributeError")
    /\ UNCHANGED <<compVars, args, today, rawData, config, pending, ssh, engines, idx, audits,
                   auditStore, partitions, gwLog, lastCall, sql, events, notif>>

\* lines 197-200: the next feed; calculate_audits() and the audit object.
\* calculate_audits returns None on a psutil error, and the call
\* AuditTableClass(**None) raises.
FeedBegin ==
    /\ pc = "loop"
    /\ ~config.data.isFalse
    /\ idx < Len(config.data.keys)
    /\ idx' = idx + 1
    /\ pending' = "none"
    /\ \E ok \in BOOLEAN :
          IF ok
          THEN /\ audits' = NewAudits(config.data.keys[idx + 1],
                                      config.data.val[config.data.keys[idx + 1]],
                                      args.test)
               /\ pc' = "audit_insert"
               /\ exc' = exc
          ELSE /\ Raise("TypeError")
               /\ UNCHANGED audits
    /\ UNCHANGED <<compVars, args, today, rawData, config, ssh, engines, auditStore,
                   partitions, gwLog, lastCall, sql, events, notif>>

\* lines 201-207: session.add(audits); session.commit()
AuditInsert ==
    /\ pc = "audit_insert"
    /\ \E ok \in BOOLEAN :
          IF ok
          THEN /\ audits' = [audits EXCEPT !.id = Len(auditStore) + 1]
               /\ auditStore' = Append(auditStore,
                                       RowAtInsert(audits, Len(auditStore) + 1))
               /\ events' = Append(events, Ev("audit_insert", audits.feed))
               /\ pc' = "select"
               /\ exc' = exc
          ELSE /\ Raise("CommitError")                     \* rollback, raise e
               /\ UNCHANGED <<audits, auditStore, events>>
    /\ UNCHANGED <<compVars, args, today, rawData, config, pending, ssh, engines, idx,
                   partitions, gwLog, lastCall, sql, notif>>

\* lines 211-231: the drop statement is built, the partition query is run
SelectPartitions ==
    /\ pc = "select"
    /\ sql' = DropStatement(CurrentValues)
    /\ \E outcome \in StoreOutcomes :
          LET query == PartitionQuery(CurrentValues)
              r == DBConnection_select(outcome)
              df == Matching(partitions[CurrentFeed], query)
          IN  /\ gwLog' = Append(gwLog, [op |-> "select", feed |-> CurrentFeed,
                                         stmt |-> query, ret |-> r.ret])
              /\ lastCall' = [op |-> "select", outcome |-> outcome,
                              raised |-> r.raised, ret |-> r.ret]
              /\ events' = Append(events, Ev("select", CurrentFeed))
              /\ IF r.raised
                 THEN /\ audits' = OnFeedException(audits)
                      /\ pending' = "QueryError"
                      /\ pc' = "finally"
                 ELSE /\ audits' = [audits EXCEPT
                                       !.removed_partitioned_count = IntV(Cardinality(df)),
                                       !.removed = df]
                      /\ pending' = pending
                      /\ pc' = "drop"
    /\ UNCHANGED <<compVars, args, today, rawData, config, exc, ssh, engines, idx,
                   auditStore, partitions, notif>>

\* lines 233-235 and 239-249: test mode, the statement is only logged
DropSimulated ==
    /\ pc = "drop"
    /\ DropIsSimulated(args.test)
    /\ audits' = AfterDrop(audits, "Result")               \* res = True
    /\ events' = Append(events, Ev("drop_simulated", CurrentFeed))
    /\ pc' = "finally"
    /\ UNCHANGED <<compVars, args, today, rawData, config, exc, pending, ssh, engines, idx,
                   auditStore, partitions, gwLog, lastCall, sql, notif>>

\* lines 236-249: res = dbconnection.execute(sql)
DropExecute ==
    /\ pc = "drop"
    /\ ~DropIsSimulated(args.test)
    /\ \E outcome \in StoreOutcomes :
          LET r == DBConnection_execute(outcome)
          IN  /\ gwLog' = Append(gwLog, [op |-> "execute", feed |-> CurrentFeed,
                                         stmt |-> sql, ret |-> r.ret])
              /\ lastCall' = [op |-> "execute", outcome |-> outcome,
                              raised |-> r.raised, ret |-> r.ret]
              /\ events' = Append(events, Ev("execute", CurrentFeed))
              /\ partitions' =
                    IF outcome = "ok"
                    THEN [partitions EXCEPT ![CurrentFeed] =
                              @ \ Matching(@, sql)]
                    ELSE partitions
              /\ IF r.raised
                 THEN /\ audits' = OnFeedException(audits)
                      /\ pending' = "ExecuteError"
                 ELSE /\ audits' = AfterDrop(audits, r.ret)
                      /\ pending' = pending
    /\ pc' = "finally"
    /\ UNCHANGED <<compVars, args, today, rawData, config, exc, ssh, engines, idx,
                   auditStore, sql, notif>>

\* lines 254-261: end_time is set and the session committed; then the
\* exception caught at line 250 is re-raised, or the loop goes on
FeedFinally ==
    /\ pc = "finally"
    /\ audits' = OnFinally(audits)
    /\ \E ok \in BOOLEAN :
          IF ok
          THEN /\ auditStore' = [auditStore EXCEPT ![audits.id] = OnFinally(audits)]
               /\ events' = Append(events, Ev("audit_update", audits.feed))
               /\ IF pending # "none"
                  THEN Raise(pending)
                  ELSE pc' = "loop" /\ exc' = exc
          ELSE /\ Raise("CommitError")                     \* rollback, raise e
               /\ UNCHANGED <<auditStore, events>>
    /\ UNCHANGED <<compVars, args, today, rawData, config, pending, ssh, engines, idx,
                   partitions, gwLog, lastCall, sql, notif>>

----------------------------------------------------------------------------
(* main(), lines 263-300: teardown and the notification.                   *)

\* line 197 when the feeds are exhausted
LoopExit ==
    /\ pc = "loop"
    /\ ~config.data.isFalse
    /\ idx = Len(config.data.keys)
    /\ pc' = "teardown"
    /\ UNCHANGED <<compVars, args, today, rawData, config, exc, pending, ssh, engines, idx, audits,
                   auditStore, partitions, gwLog, lastCall, sql, events, notif>>

ClosesDone == Cardinality({i \in 1..Len(events) : events[i].feed = "teardown"})

\* lines 263-265, one close per step: DBConnection.close() disposes the
\* engine, SSHTunnelCommandExecutor.close() closes the client, then the tunnel
CloseNext ==
    /\ pc = "teardown"
    /\ LET step == Teardown[ClosesDone + 1]
       IN  /\ events' = Append(events, Ev(step, "teardown"))
           /\ engines' = CASE step = "close_data" -> [engines EXCEPT !.data = "disposed"]
                           [] step = "close_audit" -> [engines EXCEPT !.audit = "disposed"]
                           [] OTHER -> engines
           /\ ssh' = IF step = "close_ssh"
                     THEN [tunnel |-> "closed", client |-> "closed"]
                     ELSE ssh
    /\ pc' = IF ClosesDone + 1 = Len(Teardown) THEN "notify" ELSE "teardown"
    /\ UNCHANGED <<compVars, args, today, rawData, config, exc, pending, idx, audits,
                   auditStore, partitions, gwLog, lastCall, sql, notif>>

\* lines 267-300: the template is read (a missing file falls back to a
\* generated text, any other error escapes), the email is sent (line 291)
\* and every exception of lines 278-298 is caught at line 299 and logged
Notify ==
    /\ pc = "notify"
    /\ \E template \in {"ok", "not_found", "other_error"}, outcome \in SendOutcomes :
          IF template = "other_error"
          THEN Raise("TemplateError") /\ UNCHANGED <<notif, events>>
          ELSE LET sent == send_email(<<>>, <<>>, {}, outcome)
               IN  /\ notif' = [state  |-> IF sent.delivered THEN "sent" ELSE "failed",
                                status |-> audits.run_status,
                                smtp   |-> outcome,
                                raised |-> sent.raised]
                   /\ events' = Append(events, Ev("notify", ""))
                   /\ pc' = "done"
                   /\ exc' = exc
    /\ UNCHANGED <<compVars, args, today, rawData, config, pending, ssh, engines, idx,
                   audits, auditStore, partitions, gwLog, lastCall, sql>>

Next ==
    \/ Validate
    \/ ConnectSSH
    \/ OpenDataDB
    \/ OpenAuditDB
    \/ EnsureAuditTable
    \/ LoopOnFalse
    \/ FeedBegin
    \/ AuditInsert
    \/ SelectPartitions
    \/ DropSimulated
    \/ DropExecute
    \/ FeedFinally
    \/ LoopExit
    \/ CloseNext
    \/ Notify

Spec == Init /\ [][Next]_vars

----------------------------------------------------------------------------
(* Vocabulary of the properties.                                           *)

\* validate_configs has returned (it raises KeyError or ValueError only)
ValidationReturned == pc # "start" /\ exc \notin {"KeyError", "ValueError"}
ValidationRaised == pc = "raised" /\ exc \in {"KeyError", "ValueError"}

\* --feed selects the feed f for validation
Selected(f) == args.feed = "all" \/ args.feed = f

Kept(f) == ValidationReturned /\ DictHas(config.data, f)

EventsOf(e, f) == {i \in 1..Len(events) : events[i] = Ev(e, f)}
RowsOf(f) == {i \in 1..Len(auditStore) : auditStore[i].feed = f}
ExecutesOf(f) == {i \in 1..Len(gwLog) : gwLog[i].op = "execute" /\ gwLog[i].feed = f}

\* the per-feed processing of f ran to its end and no exception left it
Completed(f) ==
    /\ ValidationReturned
    /\ \E i \in 1..Len(config.data.keys) :
          /\ config.data.keys[i] = f
          /\ \/ i < idx
             \/ i = idx /\ pc \in {"loop", "teardown", "notify", "done"}
             \/ i = idx /\ pc = "raised" /\ exc = "TemplateError"

\* the calendar, on YYYYMMDD integers
IsLeapYear(y) == (y % 4 = 0 /\ y % 100 # 0) \/ y % 400 = 0
MonthLength(y, m) ==
    IF m = 2 THEN (IF IsLeapYear(y) THEN 29 ELSE 28)
    ELSE IF m \in {4, 6, 9, 11} THEN 30 ELSE 31
DayBefore(d) ==
    LET y == d \div 10000
        m == (d \div 100) % 100
        dd == d % 100
    IN  IF dd > 1 THEN d - 1
        ELSE IF m > 1 THEN y * 10000 + (m - 1) * 100 + MonthLength(y, m - 1)
        ELSE (y - 1) * 10000 + 1231
DayAfter(d) ==
    LET y == d \div 10000
        m == (d \div 100) % 100
        dd == d % 100
    IN  IF dd < MonthLength(y, m) THEN d + 1
        ELSE IF m < 12 THEN y * 10000 + (m + 1) * 100 + 1
        ELSE (y + 1) * 10000 + 101
\* the date k days before d (after it, when k is negative)
RECURSIVE DaysBefore(_, _)
DaysBefore(d, k) ==
    IF k = 0 THEN d
    ELSE IF k > 0 THEN DaysBefore(DayBefore(d), k - 1)
    ELSE DaysBefore(DayAfter(d), k + 1)

RunDate ==
    CASE today = 738900 -> 20240115
      [] today = 738947 -> 20240302
      [] today = 738888 -> 20240103

----------------------------------------------------------------------------
(* C1.  In test mode the drop statement never reaches the data gateway's   *)
(* execute: only partition queries do, and no partition is removed.  The   *)
(* audit object gets alter_status 'success' as soon as the drop has been   *)
(* simulated, and the committed audit row of every feed whose processing   *)
(* completed has alter_status 'success'.                                   *)
C1_TestModeNeverExecutes ==
    args.test =>
        /\ \A i \in 1..Len(gwLog) : gwLog[i].op = "select"
        /\ partitions = [f \in FeedSet |-> InitialPartitions(today)]
        /\ (pc = "finally" /\ pending = "none") => audits.alter_status = "success"
        /\ \A f \in FeedSet :
              Completed(f) =>
                  /\ RowsOf(f) # {}
                  /\ \A i \in RowsOf(f) : auditStore[i].alter_status = "success"

C1_Witness ==
    /\ args.test
    /\ pc = "done"
    /\ \A f \in FeedSet : Completed(f) /\ EventsOf("drop_simulated", f) # {}
    /\ \E f \in FeedSet : audits.feed = f /\ audits.removed # {}

----------------------------------------------------------------------------
(* C2.  Every feed that remains in the validated data config has a         *)
(* RetentionPeriodInDays that is an integer >= 1.                          *)
C2_KeptFeedsHavePositiveRetention ==
    \A f \in FeedSet :
        Kept(f) =>
            LET v == rawData.val[f]["RetentionPeriodInDays"]
            IN  v.t \in {"int", "bool"} /\ v.n >= 1

----------------------------------------------------------------------------
(* C3.  For every feed for which one of Schema, TableName,                 *)
(* RetentionPeriodInDays, PartitionedBy is missing, validation completes   *)
(* without raising, the validated config does not contain the feed and the *)
(* run inserts no audit row for it.                                        *)
C3_MissingFieldFeedsAreDropped ==
    \A f \in FeedSet :
        (Selected(f) /\ AnyFieldMissing(rawData.val[f])) =>
            /\ ~ValidationRaised
            /\ ~Kept(f)
            /\ RowsOf(f) = {}

----------------------------------------------------------------------------
(* C4.  Every feed whose RetentionPeriodInDays is 0 or is not an integer   *)
(* is excluded from the config validate_feeds_config returns (which        *)
(* returns), while the valid feeds of the same config are kept.            *)
RetentionZeroOrNotInteger(v) ==
    /\ v.t # "absent"
    /\ (v.t \in {"int", "bool", "float"} /\ v.n = 0) \/ v.t \notin {"int", "bool"}

ValidFeed(value) ==
    /\ ~AnyFieldMissing(value)
    /\ ~RetentionZeroOrNotInteger(value["RetentionPeriodInDays"])

C4_ZeroOrNonIntegerRetentionExcluded ==
    \A f \in FeedSet :
        (Selected(f) /\ RetentionZeroOrNotInteger(rawData.val[f]["RetentionPeriodInDays"])) =>
            /\ ~ValidationRaised
            /\ ~Kept(f)
            /\ pc # "start" =>
                  \A g \in FeedSet : (Selected(g) /\ ValidFeed(rawData.val[g])) => Kept(g)

----------------------------------------------------------------------------
(* C5.  When no feed remains after validation the run ends normally and    *)
(* opens no SSH tunnel, no SSH client and no database connection, writes   *)
(* no audit row and sends no statement.                                    *)
C5_EmptyConfigEndsQuietly ==
    (ValidationReturned /\ config.data.isFalse) =>
        /\ pc # "raised"
        /\ ssh = [tunnel |-> "none", client |-> "none"]
        /\ engines = [data |-> "none", audit |-> "none"]
        /\ auditStore = <<>>
        /\ gwLog = <<>>

----------------------------------------------------------------------------
(* C6.  For every feed kept by validation with RetentionPeriodInDays = n,  *)
(* RemoveOnlyBefore is the run date minus (n - 1) days as a YYYYMMDD       *)
(* integer (n = 7 on 20240115 gives 20240109, n = 1 the run date), and the *)
(* drop statement and the partition query both carry the predicate         *)
(* 'partition column < RemoveOnlyBefore'.                                  *)
ExpectedCutoff(f) ==
    DaysBefore(RunDate, rawData.val[f]["RetentionPeriodInDays"].n - 1)

ExpectedPredicate(f) ==
    [column |-> rawData.val[f]["PartitionedBy"].s, op |-> "<",
     cutoff |-> ExpectedCutoff(f)]

C6_CutoffIsRunDateMinusRetentionLessOne ==
    /\ \A f \in FeedSet :
          Kept(f) =>
              LET n == rawData.val[f]["RetentionPeriodInDays"].n
                  cutoff == config.data.val[f]["RemoveOnlyBefore"]
              IN  /\ cutoff = IntV(ExpectedCutoff(f))
                  /\ (n = 7 /\ RunDate = 20240115) => cutoff.n = 20240109
                  /\ n = 1 => cutoff.n = RunDate
    /\ \A i \in 1..Len(gwLog) :
          /\ gwLog[i].stmt.pred = ExpectedPredicate(gwLog[i].feed)
          /\ gwLog[i].op = "select" => gwLog[i].stmt.stmt = "SELECT DISTINCT"
          /\ gwLog[i].op = "execute" =>
                gwLog[i].stmt.stmt = "ALTER TABLE DROP IF EXISTS PARTITION"
    /\ pc \in {"drop", "finally"} =>
          /\ sql.stmt = "ALTER TABLE DROP IF EXISTS PARTITION"
          /\ sql.pred = ExpectedPredicate(CurrentFeed)

C6_Witness ==
    /\ RunDate = 20240115
    /\ \E f \in FeedSet :
          /\ Kept(f)
          /\ rawData.val[f]["RetentionPeriodInDays"] = IntV(7)
          /\ \E i \in 1..Len(gwLog) :
                /\ gwLog[i].op = "execute" /\ gwLog[i].feed = f
                /\ gwLog[i].stmt.pred.cutoff = 20240109
    /\ \E g \in FeedSet :
          /\ Kept(g)
          /\ rawData.val[g]["RetentionPeriodInDays"] = IntV(1)

----------------------------------------------------------------------------
(* C7, as claimed.  If an exception is raised during a feed's processing   *)
(* (partition query, drop execution or audit commit), that feed's          *)
(* run_status is set to 'failed', the exception leaves the run, no later   *)
(* feed is processed and no notification is sent.                          *)
LaterFeedsUntouched ==
    \A j \in (idx + 1)..Len(config.data.keys) :
        LET g == config.data.keys[j]
        IN  /\ RowsOf(g) = {}
            /\ \A i \in 1..Len(gwLog) : gwLog[i].feed # g
            /\ \A i \in 1..Len(events) : events[i].feed # g

RunAborted ==
    /\ ~ENABLED Next
    /\ LaterFeedsUntouched
    /\ notif.state = "none"
    /\ EventsOf("notify", "") = {}

C7_AnyFeedExceptionMarksFailed ==
    (pc = "raised" /\ exc \in {"QueryError", "ExecuteError", "CommitError"}) =>
        /\ audits.feed = CurrentFeed
        /\ audits.run_status = "failed"
        /\ RunAborted

(* C7, amended.  An exception raised by a feed's partition query or drop   *)
(* execution sets that feed's run_status to 'failed' (and the audit update *)
(* persists it when its commit succeeds); every exception raised during a  *)
(* feed's processing, one raised by an audit commit included, leaves the   *)
(* run, after which no later feed is processed and no notification sent.   *)
C7_QueryOrDropExceptionMarksFailed ==
    /\ (pc \in {"finally", "raised"} /\ pending \in {"QueryError", "ExecuteError"}) =>
          /\ audits.feed = CurrentFeed
          /\ audits.run_status = "failed"
    /\ (pc = "raised" /\ exc \in {"QueryError", "ExecuteError"}) =>
          /\ pending = exc
          /\ auditStore[audits.id].run_status = "failed"
    /\ (pc = "raised" /\ exc \in {"TypeError", "QueryError", "ExecuteError", "CommitError"}) =>
          RunAborted

C7_Witness ==
    /\ pc = "raised"
    /\ exc = "ExecuteError"
    /\ idx = 1
    /\ Len(config.data.keys) = 2
    /\ audits.run_status = "failed"
    /\ auditStore[audits.id].run_status = "failed"

----------------------------------------------------------------------------
(* C8.  DBConnection.execute does not raise when the statement fails at    *)
(* the data store: it returns the false sentinel, and the result object on *)
(* success; DBConnection.select raises on every failing query and returns  *)
(* a result only on success.                                               *)
C8_ExecuteReturnsSentinelSelectRaises ==
    /\ lastCall.op = "execute" =>
          /\ lastCall.outcome = "db_error" => (~lastCall.raised /\ lastCall.ret = "False")
          /\ lastCall.outcome = "ok" => (~lastCall.raised /\ lastCall.ret = "Result")
          /\ (lastCall.outcome = "db_error" /\ pc = "finally") =>
                (pending = "none" /\ audits.alter_status = "failed")
    /\ lastCall.op = "select" =>
          /\ lastCall.outcome # "ok" => (lastCall.raised /\ lastCall.ret = "none")
          /\ lastCall.outcome = "ok" => (~lastCall.raised /\ lastCall.ret = "DataFrame")
          /\ (lastCall.outcome # "ok" /\ pc = "finally") => pending = "QueryError"

C8_Witness ==
    /\ lastCall = [op |-> "execute", outcome |-> "db_error", raised |-> FALSE,
                   ret |-> "False"]
    /\ pc = "loop"
    /\ \E i \in 1..Len(events) : events[i].e = "select"

----------------------------------------------------------------------------
(* C9.  For every feed that enters per-feed processing exactly one audit   *)
(* row is inserted and committed before the feed's partition query is      *)
(* issued; when the feed's processing ends -- on success, on a             *)
(* false-sentinel drop and on an exception of the query or the drop alike  *)
(* -- that same row is updated with end_time and committed (unless this    *)
(* commit itself fails); no audit row is ever deleted.                     *)
Ended(f) ==
    /\ EventsOf("select", f) # {}
    /\ ~(f = audits.feed /\ pc \in {"drop", "finally"})
    /\ ~(f = audits.feed /\ pc = "raised" /\ exc = "CommitError")

C9_OneAuditRowInsertedThenUpdated ==
    /\ \A f \in FeedSet :
          /\ \A i \in EventsOf("select", f) :
                /\ Cardinality(RowsOf(f)) = 1
                /\ Cardinality(EventsOf("audit_insert", f)) = 1
                /\ \A j \in EventsOf("audit_insert", f) : j < i
          /\ Cardinality(EventsOf("select", f)) <= 1
          /\ Ended(f) =>
                /\ \E u \in EventsOf("audit_update", f) :
                      \A i \in EventsOf("select", f) : i < u
                /\ \A r \in RowsOf(f) : auditStore[r].end_time = "set"
                /\ f = audits.feed => auditStore[audits.id] = audits
    /\ Len(auditStore) =
          Cardinality({i \in 1..Len(events) : events[i].e = "audit_insert"})
    /\ \A r \in 1..Len(auditStore) : auditStore[r].id = r

C9_Witness ==
    /\ pc = "done"
    /\ Len(auditStore) = 2
    /\ \E r \in 1..2 : auditStore[r].alter_status = "failed" /\ auditStore[r].end_time = "set"
    /\ \E r \in 1..2 : auditStore[r].alter_status = "success"

----------------------------------------------------------------------------
(* C10.  On every run in which all feeds are processed without an          *)
(* exception, the data DB connection, the audit DB connection and the SSH  *)
(* client/tunnel are closed in that order, each exactly once, after the    *)
(* last feed's audit update and before the notification is sent.           *)
Closes == SelectSeq(events, LAMBDA ev : ev.feed = "teardown")

C10_TeardownOrder ==
    /\ \A k \in 1..Len(Closes) :
          Closes[k] = Ev(<<"close_data", "close_audit", "close_ssh">>[k], "teardown")
    /\ Len(Closes) <= 3
    /\ \A i, j \in 1..Len(events) :
          (events[i].feed = "teardown" /\ i < j) => events[j].feed \in {"teardown", ""}
    /\ \A i, j \in 1..Len(events) :
          (events[i].e = "notify" /\ i < j) => FALSE
    /\ (pc = "loop" /\ ~config.data.isFalse /\ idx = Len(config.data.keys)) =>
          (ENABLED LoopExit /\ Len(Closes) = 0)
    /\ pc = "teardown" => ENABLED CloseNext
    /\ (pc \in {"notify", "done"} /\ ~config.data.isFalse) =>
          /\ Len(Closes) = 3
          /\ engines = [data |-> "disposed", audit |-> "disposed"]
          /\ ssh = [tunnel |-> "closed", client |-> "closed"]
          /\ \A f \in FeedSet : Kept(f) => Completed(f)
    /\ notif.state # "none" => Len(Closes) = 3

C10_Witness ==
    /\ pc = "done"
    /\ notif.state = "sent"
    /\ Len(Closes) = 3
    /\ Len(auditStore) = 2
    /\ \E r \in 1..2 : auditStore[r].alter_status = "failed"

----------------------------------------------------------------------------
(* The components, each driven on its own: the run of main() stands still. *)

RunIdle ==
    /\ args = [feed |-> "all", test |-> FALSE]
    /\ today \in {738900}
    /\ rawData = EmptyDict
    /\ config = [data |-> FalseData]
    /\ pc = "idle"
    /\ exc = "none"
    /\ pending = "none"
    /\ ssh = [tunnel |-> "none", client |-> "none"]
    /\ engines = [data |-> "none", audit |-> "none"]
    /\ idx = 0
    /\ audits = NoAudits
    /\ auditStore = <<>>
    /\ partitions = [f \in FeedSet |-> {}]
    /\ gwLog = <<>>
    /\ lastCall = NoCall
    /\ sql = NoStatement
    /\ events = <<>>
    /\ notif = NoNotification

----------------------------------------------------------------------------
(* ssh.py: SSHTunnelCommandExecutor.                                       *)

\* the number of calls made on one executor
MaxSSHCalls == 4

\* the ports the forwarder can be bound to (local_bind_address is not given,
\* so the port is picked when the tunnel starts)
LocalPorts == {10022, 10023}
Commands == {"ls", "rm"}

\* self.tunnel: "none" is None, "failed" a forwarder whose start() raised;
\* `closed` is the attribute read at line 130, which nothing in ssh.py sets
\* for a forwarder that failed to start
NoTunnel == [state |-> "none", closed |-> FALSE, port |-> 0]
\* self.client: "none" is None, "created" an SSHClient() that never connected
NoClient == [state |-> "none", port |-> 0]

\* lines 79-86: the state after construction
NewExecutor ==
    [kind   |-> "executor",
     tunnel |-> NoTunnel,
     client |-> NoClient,
     ran    |-> <<>>,
     calls  |-> 0,
     last   |-> [op |-> "", raised |-> FALSE, err |-> "", opened |-> FALSE,
                 closes |-> <<>>,
                 before |-> [tunnel |-> NoTunnel, client |-> NoClient, ran |-> <<>>]]]

TunnelOutcomes == {"ok", "start_error", "other_error"}
ClientOutcomes == {"ok", "ssh_error", "other_error"}

\* lines 108-122: the forwarder is assigned to self.tunnel before start()
\* is called; BaseSSHTunnelForwarderError is wrapped in Exception, and an
\* exception of the constructor escapes as it is and leaves self.tunnel alone
open_tunnel(tunnel, outcome, port, flag) ==
    CASE outcome = "ok" ->
            [tunnel |-> [state |-> "open", closed |-> FALSE, port |-> port],
             raised |-> FALSE, err |-> ""]
      [] outcome = "start_error" ->
            [tunnel |-> [state |-> "failed", closed |-> flag, port |-> 0],
             raised |-> TRUE, err |-> "Error opening SSH tunnel"]
      [] OTHER ->
            [tunnel |-> tunnel, raised |-> TRUE, err |-> "other"]

TunnelNeeded_Always(tunnel) == TRUE

\* line 130: `not self.tunnel or self.tunnel.closed`
TunnelNeeded(tunnel) == tunnel.state = "none" \/ tunnel.closed

\* line 135: port=self.tunnel.local_bind_port
ConnectPort(tunnel) == tunnel.port

\* lines 124-143: a new SSHClient is assigned to self.client first; the
\* three paramiko exceptions are wrapped in Exception, any other exception
\* (open_tunnel's included) escapes as it is; connecting to a forwarder that
\* is not up fails with NoValidConnectionsError
connect_client(ex, tOutcome, cOutcome, port, flag) ==
    LET needed  == TunnelNeeded(ex.tunnel)
        opening == IF needed THEN open_tunnel(ex.tunnel, tOutcome, port, flag)
                   ELSE [tunnel |-> ex.tunnel, raised |-> FALSE, err |-> ""]
        created == [state |-> "created", port |-> 0]
    IN  IF opening.raised
        THEN [tunnel |-> opening.tunnel, client |-> created, opened |-> needed,
              raised |-> TRUE, err |-> opening.err]
        ELSE IF cOutcome = "ok" /\ opening.tunnel.state = "open"
        THEN [tunnel |-> opening.tunnel,
              client |-> [state |-> "connected", port |-> ConnectPort(opening.tunnel)],
              opened |-> needed, raised |-> FALSE, err |-> ""]
        ELSE [tunnel |-> opening.tunnel, client |-> created, opened |-> needed,
              raised |-> TRUE,
              err |-> IF cOutcome = "other_error" THEN "other"
                      ELSE "Error connecting SSH client"]

\* line 146: `if not self.client`
NotConnectedGuard(client) == client.state = "none"

\* lines 145-155: past the guard the command goes to client.exec_command; a
\* client that is not connected has no transport, so nothing runs and the
\* call raises (SSHException, wrapped at line 154, or another exception,
\* which escapes as it is)
execute(ex, command, outcome) ==
    IF NotConnectedGuard(ex.client)
    THEN [ran |-> ex.ran, raised |-> TRUE, err |-> "SSH Client not connected"]
    ELSE IF ex.client.state = "connected" /\ outcome = "ok"
    THEN [ran |-> Append(ex.ran, command), raised |-> FALSE, err |-> ""]
    ELSE [ran |-> ex.ran, raised |-> TRUE,
          err |-> IF outcome = "ssh_error" THEN "Error executing command" ELSE "other"]

close_TunnelWithClient(ex) ==
    LET hasClient == ex.client.state # "none"
        hasTunnel == hasClient /\ ex.tunnel.state # "none"
    IN  [client |-> IF hasClient THEN [ex.client EXCEPT !.state = "closed"] ELSE ex.client,
         tunnel |-> IF hasTunnel
                    THEN [ex.tunnel EXCEPT !.state = "closed", !.closed = TRUE]
                    ELSE ex.tunnel,
         closes |-> (IF hasClient THEN <<"client">> ELSE <<>>)
                    \o (IF hasTunnel THEN <<"tunnel">> ELSE <<>>)]

\* lines 157-163: `if self.client: self.client.close()` and then
\* `if self.tunnel: self.tunnel.close()`; neither attribute is reset
close(ex) ==
    LET hasClient == ex.client.state # "none"
        hasTunnel == ex.tunnel.state # "none"
    IN  [client |-> IF hasClient THEN [ex.client EXCEPT !.state = "closed"] ELSE ex.client,
         tunnel |-> IF hasTunnel
                    THEN [ex.tunnel EXCEPT !.state = "closed", !.closed = TRUE]
                    ELSE ex.tunnel,
         closes |-> (IF hasClient THEN <<"client">> ELSE <<>>)
                    \o (IF hasTunnel THEN <<"tunnel">> ELSE <<>>)]

Before(ex) == [tunnel |-> ex.tunnel, client |-> ex.client, ran |-> ex.ran]

InitSSH ==
    /\ RunIdle
    /\ executor = NewExecutor
    /\ settings = NoObject
    /\ database = NoObject
    /\ mail = NoObject

SSHFrame == UNCHANGED <<runVars, settings, database, mail>>

\* a call of open_tunnel()
SSHOpenTunnel ==
    /\ executor.calls < MaxSSHCalls
    /\ \E outcome \in TunnelOutcomes, port \in LocalPorts, flag \in BOOLEAN :
          LET r == open_tunnel(executor.tunnel, outcome, port, flag)
          IN  executor' = [executor EXCEPT
                  !.tunnel = r.tunnel,
                  !.calls = @ + 1,
                  !.last = [op |-> "open_tunnel", raised |-> r.raised, err |-> r.err,
                            opened |-> TRUE, closes |-> <<>>, before |-> Before(executor)]]
    /\ SSHFrame

\* a call of connect_client()
SSHConnect ==
    /\ executor.calls < MaxSSHCalls
    /\ \E tOutcome \in TunnelOutcomes, cOutcome \in ClientOutcomes,
          port \in LocalPorts, flag \in BOOLEAN :
          LET r == connect_client(executor, tOutcome, cOutcome, port, flag)
          IN  executor' = [executor EXCEPT
                  !.tunnel = r.tunnel,
                  !.client = r.client,
                  !.calls = @ + 1,
                  !.last = [op |-> "connect_client", raised |-> r.raised, err |-> r.err,
                            opened |-> r.opened, closes |-> <<>>,
                            before |-> Before(executor)]]
    /\ SSHFrame

\* a call of execute(command)
SSHExecute ==
    /\ executor.calls < MaxSSHCalls
    /\ \E command \in Commands, outcome \in ClientOutcomes :
          LET r == execute(executor, command, outcome)
          IN  executor' = [executor EXCEPT
                  !.ran = r.ran,
                  !.calls = @ + 1,
                  !.last = [op |-> "execute", raised |-> r.raised, err |-> r.err,
                            opened |-> FALSE, closes |-> <<>>,
                            before |-> Before(executor)]]
    /\ SSHFrame

\* a call of close()
SSHClose ==
    /\ executor.calls < MaxSSHCalls
    /\ LET r == close(executor)
       IN  executor' = [executor EXCEPT
               !.tunnel = r.tunnel,
               !.client = r.client,
               !.calls = @ + 1,
               !.last = [op |-> "close", raised |-> FALSE, err |-> "",
                         opened |-> FALSE, closes |-> r.closes,
                         before |-> Before(executor)]]
    /\ SSHFrame

NextSSH ==
    \/ SSHOpenTunnel
    \/ SSHConnect
    \/ SSHExecute
    \/ SSHClose

SpecSSH == InitSSH /\ [][NextSSH]_vars

----------------------------------------------------------------------------
(* Claims about the SSH executor (SpecSSH).                                *)

\* C11: whenever execute(command) is called on an executor whose client is
\* not connected (never connected, left by a connect_client() that failed,
\* or closed), the call raises the not-connected error and no command is
\* run on the remote host.
C11_ExecuteWithoutConnectionRaisesNotConnected ==
    (executor.last.op = "execute" /\ executor.last.before.client.state # "connected") =>
        /\ executor.last.raised
        /\ executor.last.err = "SSH Client not connected"
        /\ executor.ran = executor.last.before.ran

\* C12: a connect_client() that returns leaves the tunnel open and the
\* client connected to the tunnel's local bound port; it calls open_tunnel
\* exactly when there was no tunnel or the tunnel was closed, and leaves an
\* open tunnel as it was; and whenever it leaves the tunnel not open or the
\* client not connected, it has raised.
C12_ConnectClientOpensTunnelOnlyWhenNeeded ==
    executor.last.op = "connect_client" =>
        LET b == executor.last.before
        IN  /\ ~executor.last.raised =>
                  /\ executor.tunnel.state = "open"
                  /\ ~executor.tunnel.closed
                  /\ executor.client.state = "connected"
                  /\ executor.client.port = executor.tunnel.port
                  /\ executor.client.port \in LocalPorts
            /\ executor.last.opened <=> (b.tunnel.state = "none" \/ b.tunnel.closed)
            /\ b.tunnel.state = "open" =>
                  ~executor.last.opened /\ executor.tunnel = b.tunnel
            /\ (executor.tunnel.state # "open" \/ executor.client.state # "connected")
                  => executor.last.raised

\* a connect_client() that returned on an executor whose tunnel was already
\* open, and reused it
C12_Witness ==
    /\ executor.last.op = "connect_client"
    /\ ~executor.last.raised
    /\ executor.last.before.tunnel.state = "open"
    /\ executor.tunnel = executor.last.before.tunnel
    /\ executor.client.state = "connected"

\* C13: close() never raises; it closes the client, when there is one, and
\* then the tunnel, when there is one, each whether or not the other is
\* there; afterwards neither is open; and a close() of an executor that is
\* already closed changes nothing.
C13_CloseClosesClientThenTunnel ==
    executor.last.op = "close" =>
        LET b == executor.last.before
        IN  /\ ~executor.last.raised
            /\ executor.last.closes =
                  (IF b.client.state # "none" THEN <<"client">> ELSE <<>>)
                  \o (IF b.tunnel.state # "none" THEN <<"tunnel">> ELSE <<>>)
            /\ executor.client.state \in {"none", "closed"}
            /\ executor.tunnel.state \in {"none", "closed"}
            /\ (b.client.state = "none") <=> (executor.client.state = "none")
            /\ (b.tunnel.state = "none") <=> (executor.tunnel.state = "none")
            /\ (b.client.state \in {"none", "closed"} /\ b.tunnel.state \in {"none", "closed"})
                  => Before(executor) = b

\* a second close() in a row, after one that closed a connected client and
\* an open tunnel
C13_Witness ==
    /\ executor.last.op = "close"
    /\ executor.last.before.client.state = "closed"
    /\ executor.last.before.tunnel.state = "closed"
    /\ executor.last.closes = <<"client", "tunnel">>
    /\ Len(executor.ran) > 0

----------------------------------------------------------------------------
(* db.py, ssh.py, messaging.py: the configuration objects DBConfig,        *)
(* SSHConfig, EmailConfig and WCConfig.                                    *)

\* the number of calls made on one configuration object
MaxConfigCalls == 1

ConfigClasses == {"DBConfig", "SSHConfig", "EmailConfig", "WCConfig"}

DictV == [t |-> "dict", n |-> 0, s |-> ""]          \* the empty dict

\* the properties of each class
Fields(cls) ==
    CASE cls = "DBConfig" ->
            {"delicate", "host", "port", "database", "username", "password",
             "auth_file", "query", "stream", "echo"}
      [] cls = "SSHConfig" -> {"host", "port", "username", "auth_key", "password"}
      [] cls = "WCConfig" -> {"url", "token", "proxies"}
      [] OTHER -> {"server", "port", "username", "password", "default_sender"}

\* the attributes hasattr() finds besides the properties
Methods == {"update_config"}

\* the object the constructor builds from its defaults (db.py 17-29,
\* ssh.py 8-13, messaging.py 13-18 and 151-154: the constructors assign the
\* private attributes without going through the setters; WCConfig has no
\* default for url and token, and its proxies read as {} while None)
Defaults(cls) ==
    CASE cls = "DBConfig" ->
            [f \in Fields(cls) |->
                CASE f = "delicate" -> StrV("postgresql")
                  [] f = "host" -> StrV("localhost")
                  [] f = "port" -> IntV(5432)
                  [] f = "query" -> DictV
                  [] f \in {"stream", "echo"} -> BoolV(FALSE)
                  [] OTHER -> NoneV]
      [] cls = "SSHConfig" ->
            [f \in Fields(cls) |-> IF f = "port" THEN IntV(22) ELSE NoneV]
      [] cls = "WCConfig" ->
            [f \in Fields(cls) |-> IF f = "proxies" THEN DictV ELSE StrV("name")]
      [] OTHER ->
            [f \in Fields(cls) |->
                CASE f = "server" -> StrV("smtp.gmail.com")
                  [] f = "port" -> IntV(587)
                  [] f \in {"username", "password"} -> StrV("name")
                  [] OTHER -> NoneV]

\* an object every property of which was given a value
Configured(cls) ==
    [f \in Fields(cls) |->
        CASE f = "port" -> IntV(2222)
          [] f \in {"auth_file", "auth_key"} -> StrV("/exists")
          [] f \in {"query", "proxies"} -> DictV
          [] f \in {"stream", "echo"} -> BoolV(TRUE)
          [] OTHER -> StrV("old")]

\* the paths os.path.exists() finds
ExistingPaths == {"/exists"}

\* the check each setter makes
SetterRule(cls, field) ==
    CASE field = "port" -> IF cls = "SSHConfig" THEN "ssh_port" ELSE "port"
      [] field = "auth_file" -> "auth_file"
      [] field = "auth_key" -> "auth_key"
      [] field = "query" -> "query"
      [] field = "proxies" -> "proxies"
      [] field \in {"stream", "echo"} -> "opt_bool"
      [] field \in {"password", "default_sender"} -> "opt_str"
      [] OTHER -> "str"

Accepted(obj) == [obj |-> obj, raised |-> FALSE, err |-> ""]
Rejected(obj, err) == [obj |-> obj, raised |-> TRUE, err |-> err]

\* the property setters: db.py 37-146, ssh.py 19-67, messaging.py 24-75
\* and 160-189
Setter(cls, obj, field, value) ==
    LET rule == SetterRule(cls, field)
        set  == Accepted([obj EXCEPT ![field] = value])
    IN  CASE rule = "str" ->
                \* None and non-strings are rejected, the empty string is not
                IF value.t = "none" \/ value.t # "str"
                THEN Rejected(obj, "ValueError") ELSE set
          [] rule = "port" ->
                IF value.t = "none" THEN Rejected(obj, "ValueError")
                ELSE IF ~PyIsInstanceInt(value) \/ ~(0 < value.n /\ value.n < 65536)
                THEN Rejected(obj, "ValueError") ELSE set
          [] rule = "ssh_port" ->
                \* ssh.py 31-33: no range check, and the value is assigned
                \* to self.__host
                IF value.t = "none" \/ ~PyIsInstanceInt(value)
                THEN Rejected(obj, "ValueError")
                ELSE Accepted([obj EXCEPT !["host"] = value])
          [] rule = "opt_str" ->
                IF value.t # "none" /\ value.t # "str"
                THEN Rejected(obj, "ValueError") ELSE set
          [] rule = "opt_bool" ->
                IF value.t # "none" /\ value.t # "bool"
                THEN Rejected(obj, "ValueError") ELSE set
          [] rule = "query" ->
                IF value.t # "none" /\ value.t # "dict"
                THEN Rejected(obj, "ValueError")
                ELSE Accepted([obj EXCEPT ![field] = DictV])
          [] rule = "proxies" ->
                \* messaging.py 185-189: None passes the check of line 187
                \* and None.copy() raises AttributeError at line 189
                IF value.t # "none" /\ value.t # "dict"
                THEN Rejected(obj, "ValueError")
                ELSE IF value.t = "none" THEN Rejected(obj, "AttributeError")
                ELSE Accepted([obj EXCEPT ![field] = DictV])
          [] rule = "auth_file" ->
                \* db.py 142-146; os.path.exists(None) raises TypeError
                IF value.t # "none" /\ value.t # "str" THEN Rejected(obj, "ValueError")
                ELSE IF value.t = "none" THEN Rejected(obj, "TypeError")
                ELSE IF value.s \notin ExistingPaths
                THEN Rejected(obj, "FileNotFoundError") ELSE set
          [] OTHER ->
                \* ssh.py 52-57: the FileNotFoundError of line 56 is built
                \* but not raised
                IF value.t # "none" /\ value.t # "str" THEN Rejected(obj, "ValueError")
                ELSE IF value.t = "none" THEN Rejected(obj, "TypeError")
                ELSE set

NoKey == ""

\* update_config from its i-th keyword argument on.  db.py 149-158 and
\* messaging.py 77-86 call getattr(self, key)(value): the value of the
\* property (or the bound method) is called with one argument, which raises
\* TypeError, wrapped in ValueError("Error setting <key>: ...").  ssh.py
\* 70-75 uses setattr: a property goes through its setter, whose exception
\* escapes unwrapped, and any other attribute is shadowed on the instance.
\* messaging.py 192-213 calls the method set_<key>, which assigns without a
\* check (set_proxies calls value.copy()), and wraps what it raises.
RECURSIVE UpdateLoop(_, _, _, _, _)
UpdateLoop(cls, obj, extra, kwargs, i) ==
    IF i > Len(kwargs)
    THEN [obj |-> obj, extra |-> extra, raised |-> FALSE, err |-> "", key |-> NoKey]
    ELSE LET key   == kwargs[i][1]
             value == kwargs[i][2]
         IN  IF cls = "WCConfig"
             THEN IF key \notin Fields(cls)
                  THEN [obj |-> obj, extra |-> extra, raised |-> TRUE,
                        err |-> "KeyError", key |-> key]
                  ELSE IF key = "proxies" /\ value.t # "dict"
                  THEN [obj |-> obj, extra |-> extra, raised |-> TRUE,
                        err |-> "ValueError", key |-> key]
                  ELSE UpdateLoop(cls, [obj EXCEPT ![key] = value], extra, kwargs, i + 1)
             ELSE IF key \notin Fields(cls) \cup Methods
             THEN [obj |-> obj, extra |-> extra, raised |-> TRUE,
                   err |-> "KeyError", key |-> key]
             ELSE IF cls # "SSHConfig"
             THEN [obj |-> obj, extra |-> extra, raised |-> TRUE,
                   err |-> "ValueError", key |-> key]
             ELSE IF key \in Methods
             THEN UpdateLoop(cls, obj, extra \cup {key}, kwargs, i + 1)
             ELSE LET r == Setter(cls, obj, key, value)
                  IN  IF r.raised
                      THEN [obj |-> obj, extra |-> extra, raised |-> TRUE,
                            err |-> r.err, key |-> NoKey]
                      ELSE UpdateLoop(cls, r.obj, extra, kwargs, i + 1)

update_config(cls, obj, extra, kwargs) == UpdateLoop(cls, obj, extra, kwargs, 1)

\* the values the setters are given
SetValues ==
    {NoneV, StrV(""), StrV("name"), StrV("/missing"), StrV("/exists"),
     IntV(0), IntV(8080), IntV(65536), BoolV(TRUE), FloatV(25), DictV}

\* the keyword arguments update_config is given: one, or two of a few
UpdateKeys == {"username", "port", "bogus"}
UpdateValues == {StrV("name"), IntV(8080), NoneV}
Kwargs(cls) ==
    {<<<<k, v>>>> : k \in Fields(cls) \cup Methods \cup {"bogus"}, v \in SetValues}
    \cup {kw \in {<<<<k1, v1>>, <<k2, v2>>>> :
                     k1 \in UpdateKeys, k2 \in UpdateKeys,
                     v1 \in UpdateValues, v2 \in UpdateValues} : kw[1][1] # kw[2][1]}

NoConfigCall ==
    [op |-> "", field |-> "", value |-> NoneV, kwargs |-> <<>>,
     raised |-> FALSE, err |-> "", key |-> NoKey]

InitConfig ==
    /\ RunIdle
    /\ \E cls \in ConfigClasses : \E obj \in {Defaults(cls), Configured(cls)} :
          settings = [kind |-> "config", cls |-> cls, obj |-> obj, extra |-> {},
                      calls |-> 0, before |-> obj, last |-> NoConfigCall]
    /\ executor = NoObject
    /\ database = NoObject
    /\ mail = NoObject

ConfigFrame == UNCHANGED <<runVars, executor, database, mail>>

\* an assignment  obj.field = value
ConfigSet ==
    /\ settings.calls < MaxConfigCalls
    /\ \E field \in Fields(settings.cls), value \in SetValues :
          LET r == Setter(settings.cls, settings.obj, field, value)
          IN  settings' = [settings EXCEPT
                  !.obj = r.obj,
                  !.calls = @ + 1,
                  !.before = settings.obj,
                  !.last = [op |-> "set", field |-> field, value |-> value,
                            kwargs |-> <<>>, raised |-> r.raised, err |-> r.err,
                            key |-> NoKey]]
    /\ ConfigFrame

\* a call  obj.update_config(**kwargs)
ConfigUpdate ==
    /\ settings.calls < MaxConfigCalls
    /\ \E kwargs \in Kwargs(settings.cls) :
          LET r == update_config(settings.cls, settings.obj, settings.extra, kwargs)
          IN  settings' = [settings EXCEPT
                  !.obj = r.obj,
                  !.extra = r.extra,
                  !.calls = @ + 1,
                  !.before = settings.obj,
                  !.last = [op |-> "update_config", field |-> "", value |-> NoneV,
                            kwargs |-> kwargs, raised |-> r.raised, err |-> r.err,
                            key |-> r.key]]
    /\ ConfigFrame

NextConfig ==
    \/ ConfigSet
    \/ ConfigUpdate

SpecConfig == InitConfig /\ [][NextConfig]_vars

----------------------------------------------------------------------------
(* Claims about the configuration objects (SpecConfig).                    *)

\* the i-th keyword argument names a property, and a value its setter takes
KnownKey(i) == settings.last.kwargs[i][1] \in Fields(settings.cls)
ValidArg(i) ==
    /\ KnownKey(i)
    /\ ~Setter(settings.cls, settings.before,
               settings.last.kwargs[i][1], settings.last.kwargs[i][2]).raised

\* C14: an update_config call whose keys are all properties of the class and
\* whose values their setters all accept returns and leaves each named
\* property equal to the value given for it; a call whose first key is not
\* a property raises the invalid-key error for that key; a call whose first
\* value is rejected by the property's setter raises a configuration error.
C14_UpdateConfigSetsEveryNamedField ==
    settings.last.op = "update_config" =>
        LET kw == settings.last.kwargs
        IN  /\ (\A i \in 1..Len(kw) : ValidArg(i)) =>
                  /\ ~settings.last.raised
                  /\ \A i \in 1..Len(kw) :
                        settings.obj[kw[i][1]] =
                            IF kw[i][1] = "query" THEN DictV ELSE kw[i][2]
            /\ ~KnownKey(1) =>
                  /\ settings.last.raised
                  /\ settings.last.err = "KeyError"
                  /\ settings.last.key = kw[1][1]
            /\ (KnownKey(1) /\ ~ValidArg(1)) =>
                  /\ settings.last.raised
                  /\ settings.last.err # "KeyError"

\* the values the claim calls invalid
InvalidValue(field, value) ==
    \/ field = "port" /\ ~(PyIsInstanceInt(value) /\ value.n \in 1..65535)
    \/ field \in {"host", "username", "database"} /\ (value.t # "str" \/ value.s = "")
    \/ field \in {"stream", "echo"} /\ value.t \notin {"bool", "none"}

\* C15: assigning to a port something that is not an integer in 1..65535,
\* to a host, username or database name something that is None, not a
\* string or the empty string, or to a boolean flag something that is
\* neither a boolean nor None raises a validation error and leaves every
\* property of the object as it was.
C15_SettersRejectInvalidValues ==
    (settings.last.op = "set" /\ InvalidValue(settings.last.field, settings.last.value)) =>
        /\ settings.last.raised
        /\ settings.last.err = "ValueError"
        /\ settings.obj = settings.before

\* C16: assigning to auth_file or auth_key a path that does not exist raises
\* the not-found error and leaves the stored path as it was.
C16_MissingAuthFileIsRejected ==
    (/\ settings.last.op = "set"
     /\ settings.last.field \in {"auth_file", "auth_key"}
     /\ settings.last.value.t = "str"
     /\ settings.last.value.s \notin ExistingPaths) =>
        /\ settings.last.raised
        /\ settings.last.err = "FileNotFoundError"
        /\ settings.obj[settings.last.field] = settings.before[settings.last.field]

----------------------------------------------------------------------------
(* db.py: DBConnection and the schema operations of DynamicTableGenerator. *)

\* the number of calls made on one gateway
MaxDBCalls == 5

Schemas == {"audit", "tmp"}

\* self.__engine is None
NoEngine == 0

\* lines 196-235: how __create_engine can end: the URL cannot be built
\* (line 221), create_engine raises (230-235), or, with config.stream set,
\* the connection of line 228 cannot be opened
EngineOutcomes == {"ok", "url_error", "engine_error", "connect_error"}

\* lines 196-235, on [engine, built, connects]: the engine is assigned at
\* line 226, before the streaming connection of line 228 is opened
create_engine(gw, stream, outcome) ==
    CASE outcome = "url_error" -> [gw |-> gw, raised |-> TRUE]
      [] outcome = "engine_error" -> [gw |-> gw, raised |-> TRUE]
      [] outcome = "connect_error" /\ stream ->
            [gw |-> [gw EXCEPT !.engine = gw.built + 1, !.built = @ + 1],
             raised |-> TRUE]
      [] OTHER ->
            [gw |-> [gw EXCEPT !.engine = gw.built + 1, !.built = @ + 1,
                               !.connects = IF stream THEN @ + 1 ELSE @],
             raised |-> FALSE]

EngineIsMissing_Always(gw) == TRUE

\* line 192: `if self.__engine is None`
EngineIsMissing(gw) == gw.engine = NoEngine

\* lines 190-194: the engine property
engine_property(gw, stream, outcome) ==
    IF EngineIsMissing(gw) THEN create_engine(gw, stream, outcome)
    ELSE [gw |-> gw, raised |-> FALSE]

\* lines 162-170: __init__ sets self.__engine = None and calls
\* self.__create_engine()
NewGateway == [engine |-> NoEngine, built |-> 0, connects |-> 0, disposed |-> FALSE]
DBConnection_init(stream, outcome) == create_engine(NewGateway, stream, outcome)

\* the data store's answer to a DDL statement: CREATE SCHEMA of a schema
\* that exists and DROP SCHEMA of one that does not are errors, and the
\* store can refuse any statement (permissions, a schema that is not empty)
DDLOutcomes == {"ok", "refused"}
StoreCreate(catalog, schema, outcome) ==
    IF schema \in catalog \/ outcome # "ok"
    THEN [catalog |-> catalog, error |-> TRUE]
    ELSE [catalog |-> catalog \cup {schema}, error |-> FALSE]
StoreDrop(catalog, schema, outcome) ==
    IF schema \notin catalog \/ outcome # "ok"
    THEN [catalog |-> catalog, error |-> TRUE]
    ELSE [catalog |-> catalog \ {schema}, error |-> FALSE]

\* lines 349-352
schema_exists(catalog, schema) == schema \in catalog

create_schema_Unguarded(catalog, schema, outcome) ==
    LET r == StoreCreate(catalog, schema, outcome)
    IN  [catalog |-> r.catalog, raised |-> r.error,
         ret |-> IF r.error THEN "none" ELSE "True", ddl |-> TRUE]

\* lines 354-373: the statement is issued only when the schema is not
\* there; its exception is logged and re-raised
create_schema(catalog, schema, outcome) ==
    IF ~schema_exists(catalog, schema)
    THEN LET r == StoreCreate(catalog, schema, outcome)
         IN  [catalog |-> r.catalog, raised |-> r.error,
              ret |-> IF r.error THEN "none" ELSE "True", ddl |-> TRUE]
    ELSE [catalog |-> catalog, raised |-> FALSE, ret |-> "True", ddl |-> FALSE]

\* lines 375-390
drop_schema(catalog, schema, outcome) ==
    IF schema_exists(catalog, schema)
    THEN LET r == StoreDrop(catalog, schema, outcome)
         IN  [catalog |-> r.catalog, raised |-> r.error,
              ret |-> IF r.error THEN "none" ELSE "True", ddl |-> TRUE]
    ELSE [catalog |-> catalog, raised |-> FALSE, ret |-> "True", ddl |-> FALSE]

DBCall(op, schema, r, engine, present) ==
    [op |-> op, schema |-> schema, raised |-> r.raised, ret |-> r.ret,
     ddl |-> r.ddl, engine |-> engine, present |-> present]

InitDB ==
    /\ RunIdle
    /\ \E catalog \in SUBSET Schemas :
          database = [kind |-> "db", constructed |-> FALSE, stream |-> FALSE,
                      gw |-> NewGateway, catalog |-> catalog, log |-> <<>>]
    /\ executor = NoObject
    /\ settings = NoObject
    /\ mail = NoObject

DBFrame == UNCHANGED <<runVars, executor, settings, mail>>

\* DBConnection(config, logger); a constructor that raises leaves no object
DBConstruct ==
    /\ ~database.constructed
    /\ Len(database.log) < MaxDBCalls
    /\ \E stream \in BOOLEAN, outcome \in EngineOutcomes :
          LET r == DBConnection_init(stream, outcome)
          IN  database' = [database EXCEPT
                  !.constructed = ~r.raised,
                  !.stream = stream,
                  !.gw = IF r.raised THEN NewGateway ELSE r.gw,
                  !.log = Append(@, DBCall("init", "",
                                 [raised |-> r.raised, ret |-> "none", ddl |-> FALSE],
                                 NoEngine, FALSE))]
    /\ DBFrame

\* a read of connection.engine
DBEngine ==
    /\ database.constructed
    /\ Len(database.log) < MaxDBCalls
    /\ \E outcome \in EngineOutcomes :
          LET r == engine_property(database.gw, database.stream, outcome)
          IN  database' = [database EXCEPT
                  !.gw = r.gw,
                  !.log = Append(@, DBCall("engine", "",
                                 [raised |-> r.raised, ret |-> "none", ddl |-> FALSE],
                                 IF r.raised THEN NoEngine ELSE r.gw.engine, FALSE))]
    /\ DBFrame

\* connection.close(), lines 312-315
DBClose ==
    /\ database.constructed
    /\ Len(database.log) < MaxDBCalls
    /\ database' = [database EXCEPT
           !.gw.disposed = IF database.gw.engine # NoEngine THEN TRUE ELSE @,
           !.log = Append(@, DBCall("close", "",
                          [raised |-> FALSE, ret |-> "none", ddl |-> FALSE],
                          NoEngine, FALSE))]
    /\ DBFrame

\* generator.create_schema(schema)
DBCreateSchema ==
    /\ database.constructed
    /\ Len(database.log) < MaxDBCalls
    /\ \E schema \in Schemas, outcome \in DDLOutcomes :
          LET r == create_schema(database.catalog, schema, outcome)
          IN  database' = [database EXCEPT
                  !.catalog = r.catalog,
                  !.gw.connects = @ + (IF r.ddl THEN 2 ELSE 1),
                  !.log = Append(@, DBCall("create_schema", schema, r,
                                           NoEngine, schema \in r.catalog))]
    /\ DBFrame

\* generator.drop_schema(schema)
DBDropSchema ==
    /\ database.constructed
    /\ Len(database.log) < MaxDBCalls
    /\ \E schema \in Schemas, outcome \in DDLOutcomes :
          LET r == drop_schema(database.catalog, schema, outcome)
          IN  database' = [database EXCEPT
                  !.catalog = r.catalog,
                  !.gw.connects = @ + (IF r.ddl THEN 2 ELSE 1),
                  !.log = Append(@, DBCall("drop_schema", schema, r,
                                           NoEngine, schema \in r.catalog))]
    /\ DBFrame

NextDB ==
    \/ DBConstruct
    \/ DBEngine
    \/ DBClose
    \/ DBCreateSchema
    \/ DBDropSchema

SpecDB == InitDB /\ [][NextDB]_vars

----------------------------------------------------------------------------
(* Claims about the gateway (SpecDB).                                      *)

\* the i-th and the next call are the same schema operation on one schema
Twice(i, op) ==
    /\ database.log[i].op = op
    /\ database.log[i + 1].op = op
    /\ database.log[i].schema = database.log[i + 1].schema

\* C17: when create_schema is called twice in succession for a schema and
\* the first call returns, the schema is present after each call and the
\* second call returns True without raising and without issuing a
\* statement; likewise for drop_schema, with the schema absent after each.
C17_SchemaOperationsAreIdempotent ==
    \A i \in 1..(Len(database.log) - 1) : \A op \in {"create_schema", "drop_schema"} :
        (Twice(i, op) /\ ~database.log[i].raised) =>
            /\ database.log[i].ret = "True"
            /\ database.log[i].present = (op = "create_schema")
            /\ ~database.log[i + 1].raised
            /\ database.log[i + 1].ret = "True"
            /\ ~database.log[i + 1].ddl
            /\ database.log[i + 1].present = (op = "create_schema")

\* a schema created by the first of two create_schema calls, and then
\* dropped by the first of two drop_schema calls
C17_Witness ==
    /\ Len(database.log) = 5
    /\ Twice(2, "create_schema") /\ database.log[2].ddl /\ ~database.log[2].raised
    /\ Twice(4, "drop_schema") /\ database.log[4].ddl /\ ~database.log[4].raised
    /\ database.log[2].schema = database.log[4].schema

EngineReads == {i \in 1..Len(database.log) : database.log[i].op = "engine"}

----------------------------------------------------------------------------
(* Claims about the notification step of the run (Spec).                   *)

\* C19 as stated: no failure of the sending raises out of send_email, and a
\* run that reached the notification step (the three closes are done) does
\* not end with an error.
C19_NotificationStepNeverEndsTheRun ==
    /\ (notif.state # "none" /\ notif.smtp \in SmtpOutcomes) => ~notif.raised
    /\ Len(Closes) = 3 => pc # "raised"

\* C19, amended: no failure of the SMTP conversation raises out of
\* send_email; once send_email has been called the run ends normally,
\* whether the email was delivered, failed to be sent or could not be
\* composed; and the only error that ends a run that reached the
\* notification step is one of reading or formatting the template.
C19_SendingFailureNeverEndsTheRun ==
    /\ (notif.state # "none" /\ notif.smtp \in SmtpOutcomes) => ~notif.raised
    /\ notif.state # "none" => pc = "done" /\ exc = "none"
    /\ notif.state = "sent" <=> (notif.state # "none" /\ notif.smtp = "ok")
    /\ (Len(Closes) = 3 /\ pc = "raised") =>
          exc = "TemplateError" /\ notif.state = "none"

\* a run that ended normally although the SMTP login failed
C19_Witness ==
    /\ pc = "done"
    /\ notif.state = "failed"
    /\ notif.smtp = "login_error"
    /\ ~notif.raised

----------------------------------------------------------------------------
(* messaging.py: one send_email call (SpecEmail).                          *)

\* the longest list of attachments
MaxAttachments == 3

Files == {"a.log", "b.log", "c.log"}
AttachmentLists == UNION {[1..n -> Files] : n \in 0..MaxAttachments}
InlineLists == {<<>>, <<"a.log">>, <<"c.log">>}

NoResult == [raised |-> FALSE, attempted |-> FALSE, delivered |-> FALSE, msg |-> NoMessage]

InitEmail ==
    /\ RunIdle
    /\ \E attachments \in AttachmentLists, inline \in InlineLists, readable \in SUBSET Files :
          mail = [kind |-> "mail", attachments |-> attachments,
                  inline_attachments |-> inline, readable |-> readable,
                  called |-> FALSE, outcome |-> "", result |-> NoResult]
    /\ executor = NoObject
    /\ settings = NoObject
    /\ database = NoObject

\* sender.send_email(subject, body, receivers, attachments, inline_attachments)
MailSend ==
    /\ ~mail.called
    /\ \E outcome \in SendOutcomes :
          mail' = [mail EXCEPT
              !.called = TRUE,
              !.outcome = outcome,
              !.result = send_email(mail.attachments, mail.inline_attachments,
                                    mail.readable, outcome)]
    /\ UNCHANGED <<runVars, executor, settings, database>>

NextEmail == MailSend

SpecEmail == InitEmail /\ [][NextEmail]_vars

----------------------------------------------------------------------------
(* Claims about the email sender (SpecEmail).                              *)

IsReadable(attachment) == attachment \in mail.readable

\* the parts of the attachments that can be read, in the order given
PartsOf(attachments, inline) ==
    LET kept == SelectSeq(attachments, IsReadable)
    IN  [i \in 1..Len(kept) |-> FilePart(kept[i], inline)]

\* C20: whenever send_email has composed its message, the message holds
\* the body, then one part for each attachment that could be read, in the
\* order given, then the same for the inline attachments (an attachment
\* that could not be read is left out and nothing else is), and the SMTP
\* send was attempted.
C20_UnreadableAttachmentIsSkipped ==
    (mail.called /\ mail.outcome # "compose_error") =>
        /\ mail.result.msg = <<BodyPart>> \o PartsOf(mail.attachments, FALSE)
                                          \o PartsOf(mail.inline_attachments, TRUE)
        /\ mail.result.attempted
        /\ ~mail.result.raised

\* three attachments, the second of which cannot be read: the first and the
\* third are attached and the send is attempted
C20_Witness ==
    /\ mail.called
    /\ mail.attachments = <<"a.log", "b.log", "c.log">>
    /\ mail.readable = {"a.log", "c.log"}
    /\ mail.result.msg = <<BodyPart, FilePart("a.log", FALSE), FilePart("c.log", FALSE)>>
    /\ mail.result.attempted

----------------------------------------------------------------------------
(* The false sentinel of DBConnection.execute in the per-feed body of      *)
(* main(), lines 233-261.                                                  *)

\* the calls of execute that returned False
SentinelCalls ==
    {i \in 1..Len(gwLog) : gwLog[i].op = "execute" /\ gwLog[i].ret = "False"}

\* C21: when execute returns False for the drop statement of a feed (the run
\* is not a test run), the feed's audit object and row carry alter_status
\* 'failed' and never run_status 'success'; nothing is raised by it (no
\* exception is pending at `finally`, and the run can only be ended by the
\* commit of the audit update or by a later step); the audit update is
\* committed at `finally` with end_time set (unless that commit itself
\* fails); and the loop goes on to the remaining feeds.
C21_FalseSentinelMarksTheFeedFailedAndTheLoopGoesOn ==
    \A i \in SentinelCalls :
        LET f == gwLog[i].feed
            updated == EventsOf("audit_update", f) # {}
        IN  /\ ~args.test
            /\ RowsOf(f) # {}
            /\ \A r \in RowsOf(f) :
                  /\ auditStore[r].alter_status = "failed"
                  /\ auditStore[r].run_status # "success"
                  /\ updated => auditStore[r].end_time = "set"
            /\ audits.feed = f =>
                  /\ audits.alter_status = "failed"
                  /\ audits.run_status # "success"
                  /\ pending = "none"
                  /\ pc = "raised" => exc \in {"CommitError", "TypeError", "TemplateError"}
                  /\ pc = "finally" => ~updated
                  /\ pc \notin {"finally", "raised"} => updated
                  /\ (pc = "raised" /\ exc # "CommitError") => updated
            /\ audits.feed # f => updated
            /\ updated => Completed(f)
            /\ (updated /\ audits.feed = f /\ pc = "loop") =>
                  \/ idx < Len(config.data.keys) /\ ENABLED FeedBegin
                  \/ idx = Len(config.data.keys) /\ ENABLED LoopExit

\* F1's drop returned False; F2 was processed after it and succeeded
C21_Witness ==
    /\ pc = "done"
    /\ \E i \in SentinelCalls : gwLog[i].feed = "F1"
    /\ \E r \in RowsOf("F1") : auditStore[r].alter_status = "failed"
                               /\ auditStore[r].end_time = "set"
    /\ \E j \in ExecutesOf("F2") : gwLog[j].ret = "Result"
    /\ \E r \in RowsOf("F2") : auditStore[r].run_status = "success"

----------------------------------------------------------------------------
(* An exception leaving the per-feed body, main() lines 197-265.           *)

\* what the statements of lines 197-261 raise: False.items() at line 197,
\* AuditTableClass(**None) at 198, the commits of 203 and 257, select at 218
\* and execute at 237
FeedExceptions ==
    {"AttributeError", "TypeError", "CommitError", "QueryError", "ExecuteError"}

\* C22: when an exception escapes the per-feed processing the run ends there:
\* none of dbconnection.close(), audit_dbconnection.close() and
\* executor.close() is performed, both engines stay undisposed and the SSH
\* tunnel and client stay open.
C22_FeedExceptionSkipsTheThreeCloses ==
    exc \in FeedExceptions =>
        /\ pc = "raised"
        /\ ~ENABLED Next
        /\ Closes = <<>>
        /\ engines = [data |-> "open", audit |-> "open"]
        /\ ssh = [tunnel |-> "open", client |-> "connected"]

\* the drop statement of the second feed raised, after the first feed was
\* processed to its end
C22_Witness ==
    /\ pc = "raised" /\ exc = "ExecuteError"
    /\ idx = 2
    /\ EventsOf("audit_update", "F1") # {}
    /\ EventsOf("audit_update", "F2") # {}
    /\ Closes = <<>>
    /\ engines.data = "open" /\ ssh.client = "connected"

----------------------------------------------------------------------------
(* The frame of one assignment to a configuration property (SpecConfig).   *)

\* the values each setter declares valid, by its checks and messages
ValidValue(cls, field, value) ==
    LET rule == SetterRule(cls, field)
    IN  CASE rule \in {"port", "ssh_port"} ->
                PyIsInstanceInt(value) /\ value.n \in 1..65535
          [] rule = "str" -> value.t = "str" /\ value.s # ""
          [] rule = "opt_str" -> value.t \in {"str", "none"}
          [] rule = "opt_bool" -> value.t \in {"bool", "none"}
          [] rule \in {"query", "proxies"} -> value.t \in {"dict", "none"}
          [] OTHER -> value.t = "str" /\ value.s \in ExistingPaths

\* what a property reads after value was stored: query and proxies read {}
\* for None
ReadBack(field, value) ==
    IF field \in {"query", "proxies"} /\ value.t = "none" THEN DictV ELSE value

\* C23: on a DBConfig, SSHConfig, EmailConfig or WCConfig object, assigning
\* a valid value to one property returns, makes that property read back as
\* the value assigned and leaves every other property as it was.
C23_SetterChangesOnlyItsOwnField ==
    (/\ settings.last.op = "set"
     /\ ValidValue(settings.cls, settings.last.field, settings.last.value)) =>
        /\ ~settings.last.raised
        /\ settings.obj[settings.last.field] =
              ReadBack(settings.last.field, settings.last.value)
        /\ \A g \in Fields(settings.cls) \ {settings.last.field} :
              settings.obj[g] = settings.before[g]

----------------------------------------------------------------------------
(* The status of the notification, main() lines 267-298.                   *)

\* C24: the status the notification reports (in the subject and in the
\* body) is 'success' only if every feed processed in the run, that is
\* every feed an audit row was inserted for, ended with run_status
\* 'success'.
C24_ReportedSuccessMeansEveryFeedSucceeded ==
    (notif.state # "none" /\ notif.status = "success") =>
        \A r \in 1..Len(auditStore) : auditStore[r].run_status = "success"

----------------------------------------------------------------------------
(* The --feed argument, validate_configs and validate_feeds_config.        *)

\* nothing was connected or opened, and no step of the run left a trace
NothingOpened ==
    /\ ssh = [tunnel |-> "none", client |-> "none"]
    /\ engines = [data |-> "none", audit |-> "none"]
    /\ events = <<>> /\ gwLog = <<>> /\ auditStore = <<>>

\* the run touched no feed but f
OnlyFeed(f) ==
    /\ \A i \in 1..Len(events) : events[i].feed \notin FeedSet \ {f}
    /\ \A i \in 1..Len(gwLog) : gwLog[i].feed = f
    /\ \A i \in 1..Len(auditStore) : auditStore[i].feed = f
    /\ audits.feed \in {f, ""}

\* C25: once validation is over, exactly one of three holds for the --feed
\* value.  It is 'all' in some letter case: every configured feed went
\* through validation, as for --feed all.  It names a configured feed: that
\* feed alone went through validation and only it is processed.  Otherwise
\* the run has failed with the 'feed not found' ValueError, before anything
\* was connected.
C25_FeedArgumentHasOneOfThreeOutcomes ==
    pc # "start" =>
        LET asAll == validate_feeds_config(rawData, "all", today)
        IN  CASE Lower(args.feed) = "all" ->
                    IF asAll.exc = "none"
                    THEN ValidationReturned /\ config.data = asAll.ret
                    ELSE ValidationRaised /\ exc = asAll.exc /\ NothingOpened
              [] args.feed \in FeedSet ->
                    /\ ~(pc = "raised" /\ exc = "ValueError")
                    /\ ValidationReturned =>
                          /\ ~config.data.isFalse => config.data.keys = <<args.feed>>
                          /\ OnlyFeed(args.feed)
                    /\ ValidationRaised => NothingOpened
              [] OTHER ->
                    /\ pc = "raised" /\ exc = "ValueError"
                    /\ NothingOpened

----------------------------------------------------------------------------
(* The two statuses of an audit record, main() lines 217-255.              *)

\* the partition query of feed f returned its rows
SelectSucceeded(f) ==
    \E i \in 1..Len(gwLog) :
        gwLog[i].op = "select" /\ gwLog[i].feed = f /\ gwLog[i].ret = "DataFrame"

\* the drop statement of feed f was executed and returned a result
DropSucceeded(f) ==
    \E i \in ExecutesOf(f) : gwLog[i].ret = "Result"

StatusesAgree(rec) ==
    /\ rec.run_status = "success" => rec.alter_status = "success"
    /\ rec.alter_status = "success" =>
          /\ SelectSucceeded(rec.feed)
          /\ args.test \/ DropSucceeded(rec.feed)

\* C26: in every state of every run, for the audit object in hand and for
\* every stored audit row, run_status is 'success' only if alter_status is
\* 'success', and alter_status is 'success' only if the partition query of
\* the feed succeeded and either the run is a test run or the drop statement
\* was executed and did not return False.
C26_SuccessStatusesAreJustified ==
    /\ StatusesAgree(audits)
    /\ \A r \in 1..Len(auditStore) : StatusesAgree(auditStore[r])

\* a run that is not a test: F1's drop was executed and its row says
\* success, F2's drop returned False and its row does not
C26_Witness ==
    /\ ~args.test
    /\ pc \in {"teardown", "notify", "done"}
    /\ \E r \in RowsOf("F1") : auditStore[r].run_status = "success"
                               /\ auditStore[r].alter_status = "success"
    /\ DropSucceeded("F1")
    /\ \E i \in ExecutesOf("F2") : gwLog[i].ret = "False"
    /\ \E r \in RowsOf("F2") : auditStore[r].alter_status = "failed"
                               /\ auditStore[r].end_time = "set"

====
